---- MODULE Spec2Model ----
(***************************************************************************)
(* Directory transfer and integrity verification engine of musicManager    *)
(* (src-tauri/src/transfer.rs): the tree walker, the checksum engine, the  *)
(* manifest builder, the verifier and the transfer orchestrator.           *)
(*                                                                         *)
(* A directory tree is a root and one node per relative path of Paths.     *)
(* SHA-256 is modelled by an injective code of the bytes read (collision   *)
(* resistance); everything else is computed as the code computes it.       *)
(***************************************************************************)
EXTENDS Integers, Sequences, FiniteSets, TLC

\* ------------------------------------------------------------------ bounds

\* Number of out-of-band edits made to the target tree before it is verified.
MaxEdits == 2

\* ------------------------------------------------------------ file system

\* let mut buffer = [0; 8192]
BufferSize == 8192

Bytes == {0, 1}

\* The file contents: empty, two of one byte that differ in that byte, and
\* one of two bytes.
Contents == {<<>>, <<0>>, <<1>>, <<0, 1>>}

\* target_path.join("transfer.tar.gz"): the name the archive is copied to.
ArchiveName == "transfer.tar.gz"

\* The relative paths a tree may hold: two files at the root, one of them
\* with the name of the archive copy, and one in a subdirectory.
Paths == {"a.txt", ArchiveName, "sub/b.txt"}

Absent == [kind |-> "absent", bytes |-> <<>>, readable |-> FALSE]

\* Neither a regular file nor a directory (a socket): it exists, is_file()
\* and is_dir() are false, and it cannot be opened for reading.
Special == [kind |-> "special", bytes |-> <<>>, readable |-> FALSE]

RegularFile(b, r) == [kind |-> "file", bytes |-> b, readable |-> r]

\* A regular file that can be opened neither for reading nor for writing. Its
\* content is never read by the engine: two contents, so that it can change.
Locked == RegularFile(<<0>>, FALSE)

LockedFiles == {Locked, RegularFile(<<1>>, FALSE)}

Nodes == {Absent, Special} \cup LockedFiles \cup {RegularFile(b, TRUE) : b \in Contents}

\* root: "dir" a readable directory, "noread" a directory read_dir fails on,
\* "file" a regular file, "none" nothing at that path.
EmptyNodes == [p \in Paths |-> Absent]

NoTree == [root |-> "none", node |-> EmptyNodes]

EmptyDir == [root |-> "dir", node |-> EmptyNodes]

Trees == {[root |-> "dir", node |-> f] : f \in [Paths -> Nodes]}
         \cup {[root |-> r, node |-> EmptyNodes] : r \in {"none", "file", "noread"}}

\* A path longer than the system allows: nothing is there and nothing can be
\* created there.
TooLong == [root |-> "toolong", node |-> EmptyNodes]

\* Path::exists on the root.
RootExists(tree) == tree.root \notin {"none", "toolong"}

\* Path::is_dir on the root.
RootIsDir(tree) == tree.root \in {"dir", "noread"}

\* Path::exists on root.join(rel).
PathExists(tree, rel) ==
    /\ tree.root = "dir"
    /\ rel \in Paths
    /\ tree.node[rel].kind # "absent"

\* Path::is_file on root.join(rel).
IsFile(tree, rel) == PathExists(tree, rel) /\ tree.node[rel].kind = "file"

Ok(v) == [tag |-> "Ok", value |-> v]

Err(e) == [tag |-> "Err", error |-> e]

IsOk(r) == r.tag = "Ok"

\* fs::metadata(path): the length of whatever is at the path.
Metadata(tree, rel) ==
    IF PathExists(tree, rel)
    THEN Ok([len |-> Len(tree.node[rel].bytes)])
    ELSE Err("io")

\* File::open(path) for reading.
OpenFile(tree, rel) ==
    IF IsFile(tree, rel) /\ tree.node[rel].readable
    THEN Ok(tree.node[rel].bytes)
    ELSE Err("io")

Min(a, b) == IF a < b THEN a ELSE b

Range(s) == {s[i] : i \in DOMAIN s}

SumOver(S, f(_)) ==
    LET RECURSIVE Sum(_)
        Sum(T) == IF T = {} THEN 0
                  ELSE LET x == CHOOSE y \in T : TRUE
                       IN f(x) + Sum(T \ {x})
    IN Sum(S)

\* --------------------------------------------------------- checksum engine

\* Stand-in for SHA-256 over the bytes fed to the hasher: an injective code.
Sha256(input) ==
    LET RECURSIVE Code(_)
        Code(m) == IF m = <<>> THEN 1 ELSE (Head(m) + 1) + 257 * Code(Tail(m))
    IN Code(input)

HexDigit == <<"0", "1", "2", "3", "4", "5", "6", "7",
              "8", "9", "a", "b", "c", "d", "e", "f">>

\* format!("{:x}", ...): lowercase hexadecimal digits, most significant first.
LowerHex(n) ==
    LET RECURSIVE Hex(_)
        Hex(k) == IF k < 16 THEN <<HexDigit[k + 1]>>
                  ELSE Hex(k \div 16) \o <<HexDigit[(k % 16) + 1]>>
    IN Hex(n)

\* Mutant of ReadLoop: the last byte of every chunk read is left out of the
\* hasher (an off-by-one slice).
ReadLoopDropsLast(file) ==
    LET RECURSIVE Loop(_, _)
        Loop(pos, hasher) ==
            LET bytes_read == Min(BufferSize, Len(file) - pos)
            IN IF bytes_read = 0 THEN hasher
               ELSE Loop(pos + bytes_read,
                         hasher \o SubSeq(file, pos + 1, pos + bytes_read - 1))
    IN Loop(0, <<>>)

\* The read loop: chunks of at most BufferSize bytes are fed to the hasher
\* until a read returns 0 bytes.
ReadLoop(file) ==
    LET RECURSIVE Loop(_, _)
        Loop(pos, hasher) ==
            LET bytes_read == Min(BufferSize, Len(file) - pos)
            IN IF bytes_read = 0 THEN hasher
               ELSE Loop(pos + bytes_read,
                         hasher \o SubSeq(file, pos + 1, pos + bytes_read))
    IN Loop(0, <<>>)

calculate_file_checksum(tree, rel) ==
    LET file == OpenFile(tree, rel)
    IN IF IsOk(file) THEN Ok(LowerHex(Sha256(ReadLoop(file.value))))
       ELSE Err("io")

\* ------------------------------------------------------------- tree walker

ParentDir == [p \in Paths |-> IF p = "sub/b.txt" THEN "sub" ELSE ""]

Entries(tree) == {p \in Paths : PathExists(tree, p)}

Orderings(S) ==
    {s \in [1..Cardinality(S) -> S] : \A i, j \in DOMAIN s : s[i] = s[j] => i = j}

\* The entries of one subdirectory are visited together: the recursive call
\* returns before the parent's enumeration goes on.
Contiguous(s) ==
    \A i, j, k \in DOMAIN s :
        (i < j /\ j < k /\ ParentDir[s[i]] = ParentDir[s[k]] /\ ParentDir[s[i]] # "")
            => ParentDir[s[j]] = ParentDir[s[i]]

\* Mutant of visit_dirs: subdirectories are not descended into.
visit_dirs_flat(tree) ==
    IF ~RootIsDir(tree) THEN {[ok |-> TRUE, visited |-> <<>>]}
    ELSE IF tree.root = "noread" THEN {[ok |-> FALSE, visited |-> <<>>]}
    ELSE {[ok |-> TRUE, visited |-> s] :
              s \in Orderings({p \in Entries(tree) : ParentDir[p] = ""})}

\* visit_dirs(root, cb): the outcomes of one walk, each the io::Result and the
\* paths handed to cb, in the order read_dir yields them (any order). A root
\* that is no directory is walked successfully without any callback.
visit_dirs(tree) ==
    IF ~RootIsDir(tree) THEN {[ok |-> TRUE, visited |-> <<>>]}
    ELSE IF tree.root = "noread" THEN {[ok |-> FALSE, visited |-> <<>>]}
    ELSE {[ok |-> TRUE, visited |-> s] : s \in {t \in Orderings(Entries(tree)) : Contiguous(t)}}

\* path.strip_prefix(root) of a path the walk of root yielded.
StripPrefix(abs, root) == IF abs[1] = root THEN Ok(abs[2]) ELSE Err("prefix")

\* -------------------------------------------------------- manifest builder

EmptyManifest == [checksums |-> <<>>, total_size |-> 0, file_count |-> 0]

\* Mutant of ManifestVisit: the counters are updated before the checksum is
\* known to have succeeded.
ManifestVisitCountsFirst(manifest, tree, rel) ==
    IF ~IsFile(tree, rel) THEN manifest
    ELSE LET checksum == calculate_file_checksum(tree, rel)
             metadata == Metadata(tree, rel)
         IN [checksums |->
                 IF IsOk(checksum)
                 THEN Append(manifest.checksums,
                             [path |-> rel, checksum |-> checksum.value])
                 ELSE manifest.checksums,
             total_size |-> manifest.total_size + metadata.value.len,
             file_count |-> manifest.file_count + 1]

\* Mutant of ManifestVisit: a file whose digest the manifest already records
\* is taken for a duplicate and left out.
ManifestVisitDedupes(manifest, tree, rel) ==
    IF ~IsFile(tree, rel) THEN manifest
    ELSE LET checksum == calculate_file_checksum(tree, rel)
             metadata == Metadata(tree, rel)
         IN IF ~IsOk(checksum) \/ ~IsOk(metadata) THEN manifest
            ELSE IF \E i \in DOMAIN manifest.checksums :
                        manifest.checksums[i].checksum = checksum.value
            THEN manifest
            ELSE [checksums |-> Append(manifest.checksums,
                                       [path |-> rel, checksum |-> checksum.value]),
                  total_size |-> manifest.total_size + metadata.value.len,
                  file_count |-> manifest.file_count + 1]

\* The closure passed to visit_dirs by calculate_directory_checksum.
ManifestVisit(manifest, tree, rel) ==
    IF ~IsFile(tree, rel) THEN manifest
    ELSE LET checksum == calculate_file_checksum(tree, rel)
             metadata == Metadata(tree, rel)
             relative_path == StripPrefix(<<"root", rel>>, "root")
         IN IF ~IsOk(checksum) \/ ~IsOk(metadata) THEN manifest
            ELSE [checksums |->
                      IF IsOk(relative_path)
                      THEN Append(manifest.checksums,
                                  [path |-> relative_path.value,
                                   checksum |-> checksum.value])
                      ELSE manifest.checksums,
                  total_size |-> manifest.total_size + metadata.value.len,
                  file_count |-> manifest.file_count + 1]

\* calculate_directory_checksum(path), for one outcome of the walk.
calculate_directory_checksum(tree, walk) ==
    LET RECURSIVE Fold(_, _)
        Fold(m, rest) == IF rest = <<>> THEN m
                         ELSE Fold(ManifestVisit(m, tree, Head(rest)), Tail(rest))
    IN IF ~RootExists(tree) THEN Err("Source path does not exist")
       ELSE IF ~walk.ok THEN Err("Failed to walk directory")
       ELSE Ok(Fold(EmptyManifest, walk.visited))

\* ---------------------------------------------------------------- verifier

MissingLine(path) == [text |-> "Missing file: ", path |-> path]

MismatchLine(path) == [text |-> "Checksum mismatch for: ", path |-> path]

VerifyStart == [mismatches |-> <<>>, verified_size |-> 0, verified_files |-> 0,
                failed |-> FALSE]

\* Mutant of VerifyEntry: a missing file is passed over without a line.
VerifyEntrySkipsMissing(acc, tree, original_file) ==
    IF acc.failed THEN acc
    ELSE IF ~PathExists(tree, original_file.path) THEN acc
    ELSE LET new_checksum == calculate_file_checksum(tree, original_file.path)
             metadata == Metadata(tree, original_file.path)
         IN IF ~IsOk(new_checksum) THEN [acc EXCEPT !.failed = TRUE]
            ELSE IF new_checksum.value # original_file.checksum
            THEN [acc EXCEPT !.mismatches = Append(@, MismatchLine(original_file.path))]
            ELSE IF IsOk(metadata)
            THEN [acc EXCEPT !.verified_size = @ + metadata.value.len,
                             !.verified_files = @ + 1]
            ELSE acc

\* Mutant of VerifyEntry: the loop stops examining entries after the first
\* discrepancy.
VerifyEntryStopsAtFirst(acc, tree, original_file) ==
    IF acc.failed \/ acc.mismatches # <<>> THEN acc
    ELSE IF ~PathExists(tree, original_file.path)
    THEN [acc EXCEPT !.mismatches = Append(@, MissingLine(original_file.path))]
    ELSE LET new_checksum == calculate_file_checksum(tree, original_file.path)
             metadata == Metadata(tree, original_file.path)
         IN IF ~IsOk(new_checksum) THEN [acc EXCEPT !.failed = TRUE]
            ELSE IF new_checksum.value # original_file.checksum
            THEN [acc EXCEPT !.mismatches = Append(@, MismatchLine(original_file.path))]
            ELSE IF IsOk(metadata)
            THEN [acc EXCEPT !.verified_size = @ + metadata.value.len,
                             !.verified_files = @ + 1]
            ELSE acc

\* One iteration of the loop over original_manifest.checksums.
VerifyEntry(acc, tree, original_file) ==
    IF acc.failed THEN acc
    ELSE IF ~PathExists(tree, original_file.path)
    THEN [acc EXCEPT !.mismatches = Append(@, MissingLine(original_file.path))]
    ELSE LET new_checksum == calculate_file_checksum(tree, original_file.path)
             metadata == Metadata(tree, original_file.path)
         IN IF ~IsOk(new_checksum) THEN [acc EXCEPT !.failed = TRUE]
            ELSE IF new_checksum.value # original_file.checksum
            THEN [acc EXCEPT !.mismatches = Append(@, MismatchLine(original_file.path))]
            ELSE IF IsOk(metadata)
            THEN [acc EXCEPT !.verified_size = @ + metadata.value.len,
                             !.verified_files = @ + 1]
            ELSE acc

\* Mutant of VerifyResult: success as soon as some file was verified.
VerifyResultAnyVerified(acc) ==
    [success |-> acc.verified_files > 0 \/ acc.mismatches = <<>>,
     message |-> IF acc.mismatches = <<>>
                 THEN [text |-> "Successfully verified {} files",
                       count |-> acc.verified_files, lines |-> <<>>]
                 ELSE [text |-> "Transfer verification failed:",
                       count |-> 0, lines |-> acc.mismatches],
     transferred_files |-> acc.verified_files,
     total_size |-> acc.verified_size]

\* The TransferResult built after the loop.
VerifyResult(acc) ==
    [success |-> acc.mismatches = <<>>,
     message |-> IF acc.mismatches = <<>>
                 THEN [text |-> "Successfully verified {} files",
                       count |-> acc.verified_files, lines |-> <<>>]
                 ELSE [text |-> "Transfer verification failed:",
                       count |-> 0, lines |-> acc.mismatches],
     transferred_files |-> acc.verified_files,
     total_size |-> acc.verified_size]

\* Mutant of verify_transfer: the existence of the target path is not checked.
verify_transfer_unchecked(tree, original_manifest) ==
    LET RECURSIVE Loop(_, _)
        Loop(acc, rest) == IF rest = <<>> THEN acc
                           ELSE Loop(VerifyEntry(acc, tree, Head(rest)), Tail(rest))
        acc == Loop(VerifyStart, original_manifest.checksums)
    IN IF acc.failed THEN Err("Failed to calculate checksum")
       ELSE Ok(VerifyResult(acc))

\* verify_transfer(path, original_manifest).
verify_transfer(tree, original_manifest) ==
    LET RECURSIVE Loop(_, _)
        Loop(acc, rest) == IF rest = <<>> THEN acc
                           ELSE Loop(VerifyEntry(acc, tree, Head(rest)), Tail(rest))
        acc == Loop(VerifyStart, original_manifest.checksums)
    IN IF ~RootExists(tree) THEN Err("Target path does not exist")
       ELSE IF acc.failed THEN Err("Failed to calculate checksum")
       ELSE Ok(VerifyResult(acc))

\* --------------------------------------------------- archive transport

\* tar::Builder::append_path_with_name(path, relative_path); its result is
\* dropped by the caller, so a file that cannot be read adds no entry.
AppendPath(archive, tree, rel) ==
    LET file == OpenFile(tree, rel)
    IN IF IsOk(file) THEN Append(archive, [path |-> rel, bytes |-> file.value])
       ELSE archive

\* The closure passed to visit_dirs by create_archive.
ArchiveVisit(archive, tree, rel) ==
    LET relative_path == StripPrefix(<<"root", rel>>, "root")
    IN IF IsFile(tree, rel) /\ IsOk(relative_path)
       THEN AppendPath(archive, tree, relative_path.value)
       ELSE archive

\* create_archive(source_path, archive_path), for one outcome of the walk:
\* the io::Result and the archive file left at archive_path.
create_archive(tree, walk) ==
    LET RECURSIVE Fold(_, _)
        Fold(a, rest) == IF rest = <<>> THEN a
                         ELSE Fold(ArchiveVisit(a, tree, Head(rest)), Tail(rest))
    IN [ok |-> walk.ok, file |-> Ok(Fold(<<>>, walk.visited))]

\* tar::Archive::unpack(target): every entry is written under the target
\* root, replacing what is at its path.
Unpack(archive, tree) ==
    LET RECURSIVE Put(_, _)
        Put(t, rest) ==
            IF rest = <<>> THEN t
            ELSE Put([t EXCEPT !.node[Head(rest).path] =
                                   RegularFile(Head(rest).bytes, TRUE)],
                     Tail(rest))
    IN Put(tree, archive)

\* extract_archive(archive_path, target_path): the io::Result and the target.
extract_archive(archive_file, tree) ==
    IF IsOk(archive_file) /\ tree.root = "dir"
    THEN [ok |-> TRUE, tree |-> Unpack(archive_file.value, tree)]
    ELSE [ok |-> FALSE, tree |-> tree]

\* A node fs::copy can write to: nothing yet, or a writable regular file.
Writable(node) == node.kind = "absent" \/ (node.kind = "file" /\ node.readable)

\* Stand-in for the bytes of a gzip-compressed tar archive: the gzip magic
\* number, then the length and the bytes of every entry.
TarGz(archive) ==
    LET RECURSIVE Pack(_)
        Pack(rest) == IF rest = <<>> THEN <<>>
                      ELSE <<Len(Head(rest).bytes)>> \o Head(rest).bytes
                           \o Pack(Tail(rest))
    IN <<31, 139>> \o Pack(archive)

\* fs::copy(archive_path, target_path.join("transfer.tar.gz")): the
\* io::Result, the archive as read back from the copy, and the target, where
\* the copy replaces what had that name.
CopyArchive(archive_file, tree) ==
    IF IsOk(archive_file) /\ tree.root = "dir" /\ Writable(tree.node[ArchiveName])
    THEN [ok |-> TRUE, file |-> archive_file,
          tree |-> [tree EXCEPT !.node[ArchiveName] =
                                    RegularFile(TarGz(archive_file.value), TRUE)]]
    ELSE [ok |-> FALSE, file |-> [tag |-> "None"], tree |-> tree]

\* fs::remove_file(target_path.join("transfer.tar.gz")); its result is
\* dropped.
RemoveArchiveCopy(tree) ==
    IF IsFile(tree, ArchiveName)
    THEN [tree EXCEPT !.node[ArchiveName] = Absent]
    ELSE tree

\* ------------------------------------------------ direct-copy transport

\* fs::create_dir_all(target_file.parent()): creates the missing directories
\* down to the parent, the target root included; its result is dropped.
CreateDirAll(tree) ==
    IF tree.root = "none" THEN [tree EXCEPT !.root = "dir"] ELSE tree

\* Mutant of FsCopy: the target file is created but no byte is written to it.
FsCopyWritesNothing(from, rel, to) ==
    LET file == OpenFile(from, rel)
    IN IF IsOk(file) /\ to.root = "dir" /\ Writable(to.node[rel])
       THEN [ok |-> TRUE, tree |-> [to EXCEPT !.node[rel] = RegularFile(<<>>, TRUE)]]
       ELSE [ok |-> FALSE, tree |-> to]

\* fs::copy(path, target_file): content and permissions of the source file.
FsCopy(from, rel, to) ==
    LET file == OpenFile(from, rel)
    IN IF IsOk(file) /\ to.root = "dir" /\ Writable(to.node[rel])
       THEN [ok |-> TRUE, tree |-> [to EXCEPT !.node[rel] = RegularFile(file.value, TRUE)]]
       ELSE [ok |-> FALSE, tree |-> to]

\* ------------------------------------------------------------ orchestrator

None == [tag |-> "None"]

NoFile == <<>>

TransferProgress(status, current_file, done_files, all_files, done_size, all_size) ==
    [status |-> status, current_file |-> current_file,
     processed_files |-> done_files, total_files |-> all_files,
     processed_size |-> done_size, total_size |-> all_size]

\* manifest.as_ref().map(|m| m.file_count).unwrap_or(0)
TotalFiles(m) == IF m = None THEN 0 ELSE m.file_count

\* manifest.as_ref().map(|m| m.total_size).unwrap_or(0)
TotalSize(m) == IF m = None THEN 0 ELSE m.total_size

\* Mutant of MapVerified: the counts are replaced only in a successful result.
MapVerifiedOnSuccess(result, m) ==
    IF result.success /\ result.transferred_files = 0
    THEN [result EXCEPT !.transferred_files = m.file_count,
                        !.total_size = m.total_size]
    ELSE result

\* The closure applied to the verifier's result.
MapVerified(result, m) ==
    IF result.transferred_files = 0
    THEN [result EXCEPT !.transferred_files = m.file_count,
                        !.total_size = m.total_size]
    ELSE result

\* The result returned when no verification ran.
CompletedResult(m) ==
    [success |-> TRUE,
     message |-> [text |-> "Transfer completed successfully", count |-> 0,
                  lines |-> <<>>],
     transferred_files |-> IF m = None THEN 0 ELSE m.file_count,
     total_size |-> IF m = None THEN 0 ELSE m.total_size]

\* The orchestrator's phase at each position of transfer_files.
Phase(at) ==
    CASE at = "idle" -> "Idle"
      [] at = "capturing" -> "CapturingManifest"
      [] at \in {"create_archive", "transfer_archive", "extract_archive",
                 "cleanup", "direct", "copying", "complete"} -> "Transferring"
      [] at = "verifying" -> "Verifying"
      [] at = "done" -> "Done"

\* ------------------------------------------------------------------- state

VARIABLES
    src,               \* the source tree
    tgt,               \* the target tree
    cmd_manifest,      \* what the calculate_directory_checksum command returned
    cmd_result,        \* what the verify_transfer command returned
    edits,             \* out-of-band edits made to the target so far
    options,           \* the TransferOptions of the transfer_files invocation
    pc,                \* the position of the invocation in transfer_files
    manifest,          \* the local manifest: None or the captured manifest
    events,            \* the transfer-progress events emitted, in order
    todo,              \* the paths the running walk has still to hand out
    walk_ok,           \* the io::Result of the running walk
    copied_files,      \* the local copied_files
    total_copied_size, \* the local total_copied_size
    tmp_archive,       \* the file <temp_dir>/transfer.tar.gz
    tgt_archive,       \* the file <target>/transfer.tar.gz
    outcome,           \* what transfer_files returned
    emit_result,       \* what the last app.emit call returned: "none" before any
    phases,            \* history: the phases entered, in order
    writes,            \* history: the write calls made on the archive and the target
    target0,           \* history: the target tree when the invocation started
    first,             \* history: how the first of two compared runs ended
    config_file,       \* the stored config.json: None or the AppConfig it holds
    recent_result,     \* what the last recent-locations command returned
    recent0,           \* history: the stored recent_locations at the start
    added,             \* history: the paths added by the calls that succeeded
    parked,            \* the other invocation of transfer_files, while it waits
    running,           \* which of two concurrent invocations is taking its steps
    nested,            \* target_path is a directory right under the source root
    above,             \* the calls of visit_dirs that wait for the running one
    below,             \* the directories under the one the copies are written to
    descended          \* the running call has handed out the directory of copies

cmdVars == <<cmd_manifest, cmd_result, edits>>

runVars == <<options, pc, manifest, events, emit_result, todo, walk_ok, copied_files,
             total_copied_size, tmp_archive, tgt_archive, outcome, phases, writes>>

recentVars == <<config_file, recent_result, recent0, added>>

twoVars == <<parked, running>>

nestVars == <<nested, above, below, descended>>

sideVars == <<recentVars, twoVars, nestVars>>

vars == <<src, tgt, target0, first, sideVars, cmdVars, runVars>>

AllOptions == [create_archive : BOOLEAN, verify_transfer : BOOLEAN]

\* One invocation of transfer_files at most.
TwoIdle ==
    /\ parked = [tag |-> "None"]
    /\ running = "A"

\* No configuration stored and no recent-locations command made.
RecentIdle ==
    /\ config_file = [tag |-> "None"]
    /\ recent_result = [tag |-> "None"]
    /\ recent0 = <<>>
    /\ added = <<>>

\* The target is outside the source, and the walk is in the source root.
NestIdle ==
    /\ nested = FALSE
    /\ above = <<>>
    /\ below = <<>>
    /\ descended = FALSE

SideIdle == RecentIdle /\ TwoIdle /\ NestIdle

\* No invocation of transfer_files under way.
RunIdle ==
    /\ pc = "idle"
    /\ manifest = None
    /\ events = <<>>
    /\ emit_result = "none"
    /\ todo = <<>>
    /\ walk_ok = TRUE
    /\ copied_files = 0
    /\ total_copied_size = 0
    /\ tmp_archive = None
    /\ tgt_archive = None
    /\ outcome = None
    /\ phases = <<"Idle">>
    /\ writes = 0
    /\ target0 = tgt

\* ------------------------------------------ the two commands, stand-alone

\* A source tree and a faithful copy of it as the target.
CmdInit ==
    /\ src \in Trees
    /\ tgt = src
    /\ cmd_manifest = None
    /\ cmd_result = None
    /\ edits = 0
    /\ options = [create_archive |-> FALSE, verify_transfer |-> FALSE]
    /\ first = None
    /\ SideIdle
    /\ RunIdle

\* The front end invokes calculate_directory_checksum on the source.
CalculateCmd ==
    /\ cmd_manifest = None
    /\ \E walk \in visit_dirs(src) :
           cmd_manifest' = calculate_directory_checksum(src, walk)
    /\ UNCHANGED <<src, tgt, target0, first, sideVars, cmd_result, edits, runVars>>

\* Something else changes, deletes or creates one node of the target.
EditTarget ==
    /\ cmd_manifest # None
    /\ cmd_result = None
    /\ edits < MaxEdits
    /\ tgt.root = "dir"
    /\ \E p \in Paths, n \in Nodes :
           /\ n # tgt.node[p]
           /\ tgt' = [tgt EXCEPT !.node[p] = n]
    /\ edits' = edits + 1
    /\ UNCHANGED <<src, target0, first, sideVars, cmd_manifest, cmd_result, runVars>>

\* Mutant of VerifyCmd: the files of the manifest are opened with File::create
\* instead of File::open, which truncates them.
VerifyCmdTruncates ==
    /\ cmd_manifest # None
    /\ IsOk(cmd_manifest)
    /\ cmd_result = None
    /\ cmd_result' = verify_transfer(tgt, cmd_manifest.value)
    /\ tgt' = [tgt EXCEPT !.node =
                   [p \in Paths |->
                       IF /\ \E i \in DOMAIN cmd_manifest.value.checksums :
                                 cmd_manifest.value.checksums[i].path = p
                          /\ IsFile(tgt, p)
                          /\ tgt.node[p].readable
                       THEN RegularFile(<<>>, TRUE)
                       ELSE tgt.node[p]]]
    /\ UNCHANGED <<src, target0, first, sideVars, cmd_manifest, edits, runVars>>

\* Something else removes the target directory with all it holds.
RemoveTarget ==
    /\ cmd_manifest # None
    /\ cmd_result = None
    /\ edits < MaxEdits
    /\ RootExists(tgt)
    /\ tgt' = NoTree
    /\ edits' = edits + 1
    /\ UNCHANGED <<src, target0, first, sideVars, cmd_manifest, cmd_result, runVars>>

\* The front end invokes verify_transfer on the target with the manifest.
VerifyCmd ==
    /\ cmd_manifest # None
    /\ IsOk(cmd_manifest)
    /\ cmd_result = None
    /\ cmd_result' = verify_transfer(tgt, cmd_manifest.value)
    /\ UNCHANGED <<src, tgt, target0, first, sideVars, cmd_manifest, edits, runVars>>

CmdNext == CalculateCmd \/ EditTarget \/ RemoveTarget \/ VerifyCmd

SpecCmd == CmdInit /\ [][CmdNext]_vars

\* ------------------------------------------------- claims on the commands

\* The digest of a node's content, from the bytes stored in the tree.
DigestOf(node) == LowerHex(Sha256(node.bytes))

CmdVerified == cmd_result # None /\ IsOk(cmd_result)

CmdEntries == cmd_manifest.value.checksums

InManifest(f) == \E i \in DOMAIN CmdEntries : CmdEntries[i].path = f

EntryMissing(e) == tgt.root # "dir" \/ tgt.node[e.path].kind = "absent"

EntryDiffers(e) == ~EntryMissing(e) /\ DigestOf(tgt.node[e.path]) # e.checksum

RegularFilesOf(tree) == {p \in Paths : tree.root = "dir" /\ tree.node[p].kind = "file"}

ReadableFilesOf(tree) == {p \in RegularFilesOf(tree) : tree.node[p].readable}

SizeIn(tree, p) == Len(tree.node[p].bytes)

SameElsewhere(f) ==
    /\ src.root = "dir"
    /\ tgt.root = "dir"
    /\ \A q \in Paths \ {f} : tgt.node[q] = src.node[q]

\* The target is a faithful copy of the source but for the content of file f.
ContentChanged(f) ==
    /\ SameElsewhere(f)
    /\ src.node[f].kind = "file"
    /\ tgt.node[f].kind = "file"
    /\ tgt.node[f].readable = src.node[f].readable
    /\ tgt.node[f].bytes # src.node[f].bytes

\* The target is a faithful copy of the source but for file f, which is gone.
Deleted(f) ==
    /\ SameElsewhere(f)
    /\ src.node[f].kind = "file"
    /\ tgt.node[f] = Absent

OneLine(line) ==
    /\ CmdVerified
    /\ ~cmd_result.value.success
    /\ cmd_result.value.message.lines = <<line>>
    /\ cmd_result.value.transferred_files = Len(CmdEntries) - 1

\* C1: whenever verify_transfer returns a result, success is true if and only
\* if no manifest entry is missing at the target and none has a digest other
\* than the recorded one.
C1_SuccessIffNoDiscrepancy ==
    CmdVerified =>
        (cmd_result.value.success <=>
            \A i \in DOMAIN CmdEntries :
                ~EntryMissing(CmdEntries[i]) /\ ~EntryDiffers(CmdEntries[i]))

C1_Witness ==
    /\ CmdVerified
    /\ ~cmd_result.value.success
    /\ \E i \in DOMAIN CmdEntries : EntryMissing(CmdEntries[i])
    /\ \E i \in DOMAIN CmdEntries : EntryDiffers(CmdEntries[i])
    /\ cmd_result.value.transferred_files > 0

\* C2: verifying an untouched, faithful copy of the tree the manifest was
\* captured from returns success=true and transferred_files = file_count.
C2_FaithfulCopyVerifies ==
    (cmd_result # None /\ tgt = src) =>
        /\ IsOk(cmd_result)
        /\ cmd_result.value.success
        /\ cmd_result.value.transferred_files = cmd_manifest.value.file_count

C2_Witness ==
    /\ cmd_result # None
    /\ tgt = src
    /\ cmd_manifest.value.file_count >= 2
    /\ \E p \in Paths : src.node[p] \in LockedFiles

\* C3 as stated: changing the content of exactly one file f of a faithful
\* copy makes verify_transfer return success=false with exactly one line, the
\* checksum mismatch of f, every other manifest entry being verified.
C3_AnyFileChanged ==
    \A f \in Paths :
        (cmd_result # None /\ ContentChanged(f)) => OneLine(MismatchLine(f))

\* C3 as amended: the same, for a file f that the manifest records.
C3_RecordedFileChanged ==
    \A f \in Paths :
        (cmd_result # None /\ ContentChanged(f) /\ InManifest(f))
            => OneLine(MismatchLine(f))

C3_Witness ==
    \E f \in Paths :
        /\ cmd_result # None
        /\ ContentChanged(f)
        /\ InManifest(f)
        /\ Len(CmdEntries) = 3
        /\ Len(tgt.node[f].bytes) = Len(src.node[f].bytes)

\* C4 as stated: deleting exactly one file f of a faithful copy makes
\* verify_transfer return success=false with exactly one line, the missing
\* file f, and transferred_files one less than the manifest's entry count.
C4_AnyFileDeleted ==
    \A f \in Paths :
        (cmd_result # None /\ Deleted(f)) => OneLine(MissingLine(f))

\* C4 as amended: the same, for a file f that the manifest records.
C4_RecordedFileDeleted ==
    \A f \in Paths :
        (cmd_result # None /\ Deleted(f) /\ InManifest(f)) => OneLine(MissingLine(f))

C4_Witness ==
    \E f \in Paths :
        /\ cmd_result # None
        /\ Deleted(f)
        /\ InManifest(f)
        /\ Len(CmdEntries) = 3

\* C5: every manifest returned has file_count = len(checksums), and total_size
\* is the sum of the sizes of exactly the files recorded in checksums.
C5_ManifestConsistent ==
    (cmd_manifest # None /\ IsOk(cmd_manifest)) =>
        /\ cmd_manifest.value.file_count = Len(CmdEntries)
        /\ cmd_manifest.value.total_size =
               SumOver(DOMAIN CmdEntries, LAMBDA i : SizeIn(src, CmdEntries[i].path))

C5_Witness ==
    /\ cmd_manifest # None
    /\ IsOk(cmd_manifest)
    /\ Len(CmdEntries) = 2
    /\ cmd_manifest.value.total_size = 3
    /\ \E p \in Paths : src.node[p] \in LockedFiles

\* C6 as stated: file_count is the number of regular files reachable from the
\* root and total_size the sum of their sizes.
C6_CountsEveryRegularFile ==
    (cmd_manifest # None /\ IsOk(cmd_manifest)) =>
        /\ cmd_manifest.value.file_count = Cardinality(RegularFilesOf(src))
        /\ cmd_manifest.value.total_size =
               SumOver(RegularFilesOf(src), LAMBDA p : SizeIn(src, p))

\* C6 as amended: file_count is the number of regular files reachable from the
\* root that could be read, and total_size the sum of their sizes; each of
\* them is recorded exactly once, and nothing else is.
C6_CountsEveryReadableFile ==
    (cmd_manifest # None /\ IsOk(cmd_manifest)) =>
        /\ cmd_manifest.value.file_count = Cardinality(ReadableFilesOf(src))
        /\ cmd_manifest.value.total_size =
               SumOver(ReadableFilesOf(src), LAMBDA p : SizeIn(src, p))
        /\ {CmdEntries[i].path : i \in DOMAIN CmdEntries} = ReadableFilesOf(src)
        /\ \A i, j \in DOMAIN CmdEntries :
               CmdEntries[i].path = CmdEntries[j].path => i = j

C6_Witness ==
    /\ cmd_manifest # None
    /\ IsOk(cmd_manifest)
    /\ src.node["a.txt"] = Special
    /\ src.node[ArchiveName] \in LockedFiles
    /\ src.node["sub/b.txt"] = RegularFile(<<0, 1>>, TRUE)
    /\ cmd_manifest.value.file_count = 1
    /\ cmd_manifest.value.total_size = 2

\* The entry is present at the target and its checksum cannot be computed.
EntryUnreadable(e) ==
    /\ ~EntryMissing(e)
    /\ ~(tgt.node[e.path].kind = "file" /\ tgt.node[e.path].readable)

\* The line a manifest entry is owed: none when it is present with its digest.
LineOf(e) ==
    IF EntryMissing(e) THEN <<MissingLine(e.path)>>
    ELSE IF EntryDiffers(e) THEN <<MismatchLine(e.path)>>
    ELSE <<>>

\* The lines owed to the entries, in the order of the entries.
RECURSIVE LinesOf(_)
LinesOf(entries) ==
    IF entries = <<>> THEN <<>> ELSE LineOf(Head(entries)) \o LinesOf(Tail(entries))

\* C12: verify_transfer returns an error only for a target path that does not
\* exist or an entry whose checksum cannot be computed, never for a missing or
\* mismatched entry; its result then has success=false exactly when some entry
\* is missing or mismatched, and its message lists one line per discrepancy,
\* "Missing file: p" or "Checksum mismatch for: p", in manifest order, every
\* entry being examined: all the others are counted as verified.
C12_MismatchIsNoError ==
    cmd_result # None =>
        IF IsOk(cmd_result)
        THEN /\ cmd_result.value.message.lines = LinesOf(CmdEntries)
             /\ cmd_result.value.success <=> LinesOf(CmdEntries) = <<>>
             /\ ~cmd_result.value.success =>
                    cmd_result.value.message.text = "Transfer verification failed:"
             /\ cmd_result.value.transferred_files =
                    Len(CmdEntries) - Len(LinesOf(CmdEntries))
        ELSE \/ ~RootExists(tgt)
             \/ \E i \in DOMAIN CmdEntries : EntryUnreadable(CmdEntries[i])

C12_Witness ==
    /\ CmdVerified
    /\ Len(CmdEntries) = 3
    /\ cmd_result.value.message.lines =
           <<MissingLine(CmdEntries[1].path), MismatchLine(CmdEntries[2].path)>>
    /\ cmd_result.value.transferred_files = 1
    /\ ~cmd_result.value.success

\* C13: a call of verify_transfer, whether it returns a result or an error,
\* leaves the target tree, the files under it and their contents, and the
\* manifest as they were before the call.
C13_VerifyReadsOnly ==
    [][cmd_result' # cmd_result => (tgt' = tgt /\ cmd_manifest' = cmd_manifest)]_vars

C13_Witness ==
    /\ CmdVerified
    /\ ~cmd_result.value.success
    /\ Cardinality(RegularFilesOf(tgt)) >= 2
    /\ \E i \in DOMAIN CmdEntries : EntryDiffers(CmdEntries[i])
    /\ edits = MaxEdits

\* Two returns of calculate_directory_checksum agree: the same error, or the
\* same set of entries, the same file_count and the same total_size.
SameManifest(r1, r2) ==
    IF IsOk(r1) /\ IsOk(r2)
    THEN /\ Range(r1.value.checksums) = Range(r2.value.checksums)
         /\ r1.value.file_count = r2.value.file_count
         /\ r1.value.total_size = r2.value.total_size
    ELSE r1 = r2

\* What a second call on the source returns, for each order its walk may take.
SecondCalls == {calculate_directory_checksum(src, walk) : walk \in visit_dirs(src)}

\* C15: the first call of calculate_directory_checksum leaves the tree as it
\* was, and a second call on the tree as the first one left it returns the
\* same set of (path, checksum) entries, the same file_count and the same
\* total_size as the first.
C15_Idempotent ==
    [][cmd_manifest' # cmd_manifest =>
           /\ src' = src
           /\ \A second \in SecondCalls' : SameManifest(second, cmd_manifest')]_vars

C15_Witness ==
    /\ cmd_manifest # None
    /\ IsOk(cmd_manifest)
    /\ Len(CmdEntries) = 3
    /\ \E second \in SecondCalls : second.value.checksums # CmdEntries
    /\ \E i, j \in DOMAIN CmdEntries : i # j /\ CmdEntries[i].checksum = CmdEntries[j].checksum

\* C16: calculate_directory_checksum on a path that does not exist returns
\* the error "Source path does not exist" and verify_transfer on a target path
\* that does not exist returns the error "Target path does not exist",
\* whatever the manifest records: no manifest and no result is produced; and
\* neither error is returned for a path that exists.
C16_MissingPathIsError ==
    /\ cmd_manifest # None =>
           (~RootExists(src) <=> cmd_manifest = Err("Source path does not exist"))
    /\ cmd_result # None =>
           (~RootExists(tgt) <=> cmd_result = Err("Target path does not exist"))

C16_Witness ==
    /\ cmd_result = Err("Target path does not exist")
    /\ IsOk(cmd_manifest)
    /\ Len(CmdEntries) >= 2
    /\ \E p \in Paths : src.node[p] \in LockedFiles

\* The regular files of the source whose checksum cannot be computed.
FailingFiles == RegularFilesOf(src) \ ReadableFilesOf(src)

\* The tree without the file at p.
Without(tree, p) == [tree EXCEPT !.node[p] = Absent]

\* What calculate_directory_checksum returns on a tree, for each order of its walk.
ManifestsOf(tree) == {calculate_directory_checksum(tree, walk) : walk \in visit_dirs(tree)}

\* C19: a file whose checksum cannot be computed does not make
\* calculate_directory_checksum fail: a manifest is returned, the file is in
\* none of checksums, file_count and total_size, and the manifest is one that
\* the tree without that file yields, every other file recorded alike.
C19_FailingFileSkipped ==
    cmd_manifest # None =>
        \A p \in FailingFiles :
            /\ IsOk(cmd_manifest)
            /\ ~InManifest(p)
            /\ cmd_manifest \in ManifestsOf(Without(src, p))

C19_Witness ==
    /\ cmd_manifest # None
    /\ FailingFiles = {"a.txt"}
    /\ IsOk(cmd_manifest)
    /\ cmd_manifest.value.file_count = 2
    /\ cmd_manifest.value.total_size = 3

\* ------------------------------------------------- transfer_files, stepwise

\* The targets a transfer may start on: an empty directory, no directory, a
\* regular file in its place, and a directory that already holds one node, a
\* locked file or a stale regular file.
TargetInits ==
    {EmptyDir, NoTree, [root |-> "file", node |-> EmptyNodes]}
    \cup {[root |-> "dir", node |-> [EmptyNodes EXCEPT ![p] = n]] :
              p \in Paths, n \in {Locked, RegularFile(<<1>>, TRUE)}}

Init ==
    /\ src \in Trees
    /\ tgt \in TargetInits
    /\ options \in AllOptions
    /\ cmd_manifest = None
    /\ cmd_result = None
    /\ edits = 0
    /\ first = None
    /\ SideIdle
    /\ RunIdle

\* app.emit("transfer-progress", ev).ok(): the event is handed to the channel,
\* which delivers it or fails; the result is dropped.
Emit(ev) ==
    /\ events' = Append(events, ev)
    /\ emit_result' \in {"ok", "err"}

\* The invocation moves to position `at`.
Goto(at) ==
    /\ pc' = at
    /\ phases' = IF Phase(at) = Phase(pc) THEN phases ELSE Append(phases, Phase(at))

\* The invocation returns r.
Return(r) ==
    /\ outcome' = r
    /\ Goto("done")

Transport == IF options.create_archive THEN "create_archive" ELSE "direct"

\* Mutant of Begin: the manifest is captured whether or not verification is
\* requested.
BeginAlwaysCaptures ==
    /\ pc = "idle"
    /\ Emit(TransferProgress("Calculating checksums...", NoFile, 0, 0, 0, 0))
    /\ Goto("capturing")
    /\ UNCHANGED <<src, tgt, target0, first, sideVars, cmdVars, options, manifest,
                   todo, walk_ok, copied_files, total_copied_size, tmp_archive,
                   tgt_archive, outcome, writes>>

\* Step 1, up to the call of calculate_directory_checksum.
Begin ==
    /\ pc = "idle"
    /\ IF options.verify_transfer
       THEN /\ Emit(TransferProgress("Calculating checksums...", NoFile, 0, 0, 0, 0))
            /\ Goto("capturing")
       ELSE /\ UNCHANGED <<events, emit_result>>
            /\ Goto(Transport)
    /\ UNCHANGED <<src, tgt, target0, first, sideVars, cmdVars, options, manifest,
                   todo, walk_ok, copied_files, total_copied_size, tmp_archive,
                   tgt_archive, outcome, writes>>

\* Mutant of Capture: the error of the manifest capture is dropped with .ok()
\* and the invocation goes on without a manifest.
CaptureSwallowsError ==
    /\ pc = "capturing"
    /\ \E walk \in visit_dirs(src) :
           LET r == calculate_directory_checksum(src, walk)
           IN /\ manifest' = IF IsOk(r) THEN r.value ELSE None
              /\ Goto(Transport)
              /\ UNCHANGED outcome
    /\ UNCHANGED <<src, tgt, target0, first, sideVars, cmdVars, options, events,
                   emit_result, todo, walk_ok, copied_files, total_copied_size,
                   tmp_archive, tgt_archive, writes>>

\* calculate_directory_checksum(options.source_path).await?
Capture ==
    /\ pc = "capturing"
    /\ \E walk \in visit_dirs(src) :
           LET r == calculate_directory_checksum(src, walk)
           IN IF IsOk(r)
              THEN /\ manifest' = r.value
                   /\ Goto(Transport)
                   /\ UNCHANGED outcome
              ELSE /\ Return(Err(r.error))
                   /\ UNCHANGED manifest
    /\ UNCHANGED <<src, tgt, target0, first, sideVars, cmdVars, options, events,
                   emit_result, todo, walk_ok, copied_files, total_copied_size,
                   tmp_archive, tgt_archive, writes>>

\* Mutant of CreateArchive: the archive file is opened for appending, not
\* created anew, so the entries go after those it already holds.
CreateArchiveAppends ==
    /\ pc = "create_archive"
    /\ Emit(TransferProgress("Creating archive...", NoFile,
                             0, TotalFiles(manifest), 0, TotalSize(manifest)))
    /\ writes' = writes + 1
    /\ \E walk \in visit_dirs(src) :
           LET r == create_archive(src, walk)
           IN /\ tmp_archive' = IF IsOk(tmp_archive)
                                 THEN Ok(tmp_archive.value \o r.file.value)
                                 ELSE r.file
              /\ IF r.ok
                 THEN Goto("transfer_archive") /\ UNCHANGED outcome
                 ELSE Return(Err("Failed to create archive"))
    /\ UNCHANGED <<src, tgt, target0, first, sideVars, cmdVars, options, manifest, todo,
                   walk_ok, copied_files, total_copied_size, tgt_archive>>

\* The archive method, up to create_archive(...)?
CreateArchive ==
    /\ pc = "create_archive"
    /\ Emit(TransferProgress("Creating archive...", NoFile,
                             0, TotalFiles(manifest), 0, TotalSize(manifest)))
    /\ writes' = writes + 1
    /\ \E walk \in visit_dirs(src) :
           LET r == create_archive(src, walk)
           IN /\ tmp_archive' = r.file
              /\ IF r.ok
                 THEN Goto("transfer_archive") /\ UNCHANGED outcome
                 ELSE Return(Err("Failed to create archive"))
    /\ UNCHANGED <<src, tgt, target0, first, sideVars, cmdVars, options, manifest,
                   todo, walk_ok, copied_files, total_copied_size, tgt_archive>>

\* Up to fs::copy(&archive_path, target_path.join("transfer.tar.gz"))?
TransferArchive ==
    /\ pc = "transfer_archive"
    /\ Emit(TransferProgress("Transferring archive...", NoFile,
                             TotalFiles(manifest) \div 2, TotalFiles(manifest),
                             TotalSize(manifest) \div 2, TotalSize(manifest)))
    /\ writes' = writes + 1
    /\ LET r == CopyArchive(tmp_archive, tgt)
       IN IF r.ok
          THEN /\ tgt_archive' = r.file
               /\ tgt' = r.tree
               /\ Goto("extract_archive")
               /\ UNCHANGED outcome
          ELSE /\ Return(Err("Failed to transfer archive"))
               /\ UNCHANGED <<tgt, tgt_archive>>
    /\ UNCHANGED <<src, target0, first, sideVars, cmdVars, options, manifest, todo,
                   walk_ok, copied_files, total_copied_size, tmp_archive>>

\* Mutant of ExtractArchive: the event pasted from the step before keeps its
\* status.
ExtractArchiveStaleStatus ==
    /\ pc = "extract_archive"
    /\ Emit(TransferProgress("Transferring archive...", NoFile,
                             (TotalFiles(manifest) * 3) \div 4, TotalFiles(manifest),
                             (TotalSize(manifest) * 3) \div 4, TotalSize(manifest)))
    /\ writes' = writes + 1
    /\ LET r == extract_archive(tgt_archive, tgt)
       IN /\ tgt' = r.tree
          /\ IF r.ok
             THEN Goto("cleanup") /\ UNCHANGED outcome
             ELSE Return(Err("Failed to extract archive"))
    /\ UNCHANGED <<src, target0, first, sideVars, cmdVars, options, manifest, todo,
                   walk_ok, copied_files, total_copied_size, tmp_archive, tgt_archive>>

\* Up to extract_archive(...)?
ExtractArchive ==
    /\ pc = "extract_archive"
    /\ Emit(TransferProgress("Extracting archive...", NoFile,
                             (TotalFiles(manifest) * 3) \div 4, TotalFiles(manifest),
                             (TotalSize(manifest) * 3) \div 4, TotalSize(manifest)))
    /\ writes' = writes + 1
    /\ LET r == extract_archive(tgt_archive, tgt)
       IN /\ tgt' = r.tree
          /\ IF r.ok
             THEN Goto("cleanup") /\ UNCHANGED outcome
             ELSE Return(Err("Failed to extract archive"))
    /\ UNCHANGED <<src, target0, first, sideVars, cmdVars, options, manifest, todo,
                   walk_ok, copied_files, total_copied_size, tmp_archive, tgt_archive>>

\* Mutant of Cleanup: only the archive in the temp directory is removed.
CleanupTempOnly ==
    /\ pc = "cleanup"
    /\ tmp_archive' = None
    /\ writes' = writes + 1
    /\ Goto("complete")
    /\ UNCHANGED <<src, tgt, target0, first, sideVars, cmdVars, options, manifest, events,
                   emit_result, todo, walk_ok, copied_files, total_copied_size,
                   tgt_archive, outcome>>

\* Clean up temporary files: both remove_file calls.
Cleanup ==
    /\ pc = "cleanup"
    /\ tmp_archive' = None
    /\ tgt_archive' = None
    /\ tgt' = RemoveArchiveCopy(tgt)
    /\ writes' = writes + 2
    /\ Goto("complete")
    /\ UNCHANGED <<src, target0, first, sideVars, cmdVars, options, manifest, events,
                   emit_result, todo, walk_ok, copied_files, total_copied_size,
                   outcome>>

\* The name of the target directory under the source root, when it is there.
TargetName == "out"

\* The path, relative to the source root, of `rel` in the directory `levels`
\* levels of target directories down.
RECURSIVE Under(_, _)
Under(levels, rel) ==
    IF levels = 0 THEN rel ELSE TargetName \o "/" \o Under(levels - 1, rel)

\* The levels of target directories inside one another that the longest path
\* of the system has room for.
PathDepth == 2

\* read_dir of the source root yields the target directory if it was there
\* when the walk began.
TargetListed == nested /\ target0.root = "dir"

\* The outermost visit_dirs has handed out every entry.
WalkReturned == todo = <<>> /\ above = <<>> /\ (TargetListed => descended)

\* The direct copy method: the locals and the start of the walk.
StartCopy ==
    /\ pc = "direct"
    /\ copied_files' = 0
    /\ total_copied_size' = 0
    /\ \E walk \in visit_dirs(src) :
           /\ todo' = walk.visited
           /\ walk_ok' = walk.ok
    /\ Goto("copying")
    /\ UNCHANGED <<src, tgt, target0, first, sideVars, cmdVars, options, manifest, events,
                   emit_result, tmp_archive, tgt_archive, outcome, writes>>

\* Mutant of CopyFile: a copy that fails ends the walk.
CopyFileStopsOnFailure ==
    /\ pc = "copying"
    /\ todo # <<>>
    /\ todo' = IF /\ IsFile(src, Head(todo))
                   /\ ~FsCopy(src, Head(todo), CreateDirAll(tgt)).ok
                THEN <<>>
                ELSE Tail(todo)
    /\ LET rel == Head(todo)
           relative_path == StripPrefix(<<"root", Under(Len(above), rel)>>, "root")
       IN IF IsFile(src, rel) /\ IsOk(relative_path)
          THEN LET made == CreateDirAll(tgt)
                   metadata == Metadata(src, rel)
                   copy == FsCopy(src, rel, made)
               IN /\ Emit(TransferProgress("Copying files...", <<relative_path.value>>,
                                           copied_files, TotalFiles(manifest),
                                           total_copied_size, TotalSize(manifest)))
                  /\ IF IsOk(metadata)
                     THEN /\ tgt' = copy.tree
                          /\ writes' = writes + 2
                          /\ IF copy.ok
                             THEN /\ copied_files' = copied_files + 1
                                  /\ total_copied_size' = total_copied_size + metadata.value.len
                             ELSE UNCHANGED <<copied_files, total_copied_size>>
                     ELSE /\ tgt' = made
                          /\ writes' = writes + 1
                          /\ UNCHANGED <<copied_files, total_copied_size>>
          ELSE UNCHANGED <<tgt, events, emit_result, copied_files, total_copied_size, writes>>
    /\ UNCHANGED <<src, target0, first, sideVars, cmdVars, options, pc, manifest, walk_ok,
                   tmp_archive, tgt_archive, outcome, phases>>

\* Mutant of CopyFile: the event counts the file it announces as copied.
CopyFileCountsInFlight ==
    /\ pc = "copying"
    /\ todo # <<>>
    /\ todo' = Tail(todo)
    /\ LET rel == Head(todo)
           relative_path == StripPrefix(<<"root", Under(Len(above), rel)>>, "root")
       IN IF IsFile(src, rel) /\ IsOk(relative_path)
          THEN LET made == CreateDirAll(tgt)
                   metadata == Metadata(src, rel)
                   copy == FsCopy(src, rel, made)
               IN /\ Emit(TransferProgress("Copying files...", <<relative_path.value>>,
                                           copied_files + 1, TotalFiles(manifest),
                                           total_copied_size + Len(src.node[rel].bytes),
                                           TotalSize(manifest)))
                  /\ IF IsOk(metadata)
                     THEN /\ tgt' = copy.tree
                          /\ writes' = writes + 2
                          /\ IF copy.ok
                             THEN /\ copied_files' = copied_files + 1
                                  /\ total_copied_size' = total_copied_size + metadata.value.len
                             ELSE UNCHANGED <<copied_files, total_copied_size>>
                     ELSE /\ tgt' = made
                          /\ writes' = writes + 1
                          /\ UNCHANGED <<copied_files, total_copied_size>>
          ELSE UNCHANGED <<tgt, events, emit_result, copied_files, total_copied_size, writes>>
    /\ UNCHANGED <<src, target0, first, sideVars, cmdVars, options, pc, manifest, walk_ok,
                   tmp_archive, tgt_archive, outcome, phases>>

\* The closure passed to visit_dirs, on the next path of the walk.
CopyFile ==
    /\ pc = "copying"
    /\ todo # <<>>
    /\ todo' = Tail(todo)
    /\ LET rel == Head(todo)
           relative_path == StripPrefix(<<"root", Under(Len(above), rel)>>, "root")
       IN IF IsFile(src, rel) /\ IsOk(relative_path)
          THEN LET made == CreateDirAll(tgt)
                   metadata == Metadata(src, rel)
                   copy == FsCopy(src, rel, made)
               IN /\ Emit(TransferProgress("Copying files...", <<relative_path.value>>,
                                           copied_files, TotalFiles(manifest),
                                           total_copied_size, TotalSize(manifest)))
                  /\ IF IsOk(metadata)
                     THEN /\ tgt' = copy.tree
                          /\ writes' = writes + 2
                          /\ IF copy.ok
                             THEN /\ copied_files' = copied_files + 1
                                  /\ total_copied_size' = total_copied_size + metadata.value.len
                             ELSE UNCHANGED <<copied_files, total_copied_size>>
                     ELSE /\ tgt' = made
                          /\ writes' = writes + 1
                          /\ UNCHANGED <<copied_files, total_copied_size>>
          ELSE UNCHANGED <<tgt, events, emit_result, copied_files, total_copied_size, writes>>
    /\ UNCHANGED <<src, target0, first, sideVars, cmdVars, options, pc, manifest, walk_ok,
                   tmp_archive, tgt_archive, outcome, phases>>

\* visit_dirs(&path, cb)? on the target directory, which lies in the directory
\* being walked: the running call waits, and the directory of copies is walked
\* as it is now, its own copies going one level further down.
Descend ==
    /\ pc = "copying"
    /\ nested
    /\ ~descended
    /\ tgt.root = "dir"
    /\ above' = Append(above, [tree |-> src, todo |-> todo])
    /\ src' = tgt
    /\ tgt' = IF Len(above) + 2 <= PathDepth THEN NoTree ELSE TooLong
    /\ \E walk \in visit_dirs(tgt) : todo' = walk.visited
    /\ descended' = FALSE
    /\ UNCHANGED <<target0, first, recentVars, twoVars, nested, below, cmdVars, options,
                   pc, manifest, events, emit_result, walk_ok, copied_files,
                   total_copied_size, tmp_archive, tgt_archive, outcome, phases, writes>>

\* Mutant of Ascend: the inner call never returns to the one that waits.
AscendStuck ==
    /\ pc = "copying"
    /\ todo = <<>>
    /\ above # <<>>
    /\ UNCHANGED vars

\* An inner visit_dirs returns Ok(()): the call that waited goes on with the
\* entries it has left.
Ascend ==
    /\ pc = "copying"
    /\ todo = <<>>
    /\ above # <<>>
    /\ below' = <<tgt>> \o below
    /\ tgt' = src
    /\ src' = above[Len(above)].tree
    /\ todo' = above[Len(above)].todo
    /\ above' = SubSeq(above, 1, Len(above) - 1)
    /\ descended' = TRUE
    /\ UNCHANGED <<target0, first, recentVars, twoVars, nested, cmdVars, options, pc,
                   manifest, events, emit_result, walk_ok, copied_files,
                   total_copied_size, tmp_archive, tgt_archive, outcome, phases, writes>>

\* Mutant of FinishCopy: the check of copied_files is left out.
FinishCopyUnchecked ==
    /\ pc = "copying"
    /\ WalkReturned
    /\ IF ~walk_ok THEN Return(Err("Failed to copy files"))
       ELSE Goto("complete") /\ UNCHANGED outcome
    /\ UNCHANGED <<src, tgt, target0, first, sideVars, cmdVars, options, manifest, events,
                   emit_result, todo, walk_ok, copied_files, total_copied_size,
                   tmp_archive, tgt_archive, writes>>

\* The walk has returned: its error, or no file copied, ends the invocation.
FinishCopy ==
    /\ pc = "copying"
    /\ WalkReturned
    /\ IF ~walk_ok THEN Return(Err("Failed to copy files"))
       ELSE IF copied_files = 0 THEN Return(Err("No files were copied"))
       ELSE Goto("complete") /\ UNCHANGED outcome
    /\ UNCHANGED <<src, tgt, target0, first, sideVars, cmdVars, options, manifest, events,
                   emit_result, todo, walk_ok, copied_files, total_copied_size,
                   tmp_archive, tgt_archive, writes>>

\* Mutant of Complete: the result of the final emission is propagated with ?
\* instead of being dropped with .ok().
CompletePropagatesEmit ==
    /\ pc = "complete"
    /\ Emit(TransferProgress("Transfer complete", NoFile,
                             TotalFiles(manifest), TotalFiles(manifest),
                             TotalSize(manifest), TotalSize(manifest)))
    /\ IF emit_result' = "err" THEN Return(Err("Failed to emit progress"))
       ELSE IF options.verify_transfer /\ manifest # None
       THEN Goto("verifying") /\ UNCHANGED outcome
       ELSE Return(Ok(CompletedResult(manifest)))
    /\ UNCHANGED <<src, tgt, target0, first, sideVars, cmdVars, options, manifest,
                   todo, walk_ok, copied_files, total_copied_size, tmp_archive,
                   tgt_archive, writes>>

\* The final progress update, and the result when no verification follows.
Complete ==
    /\ pc = "complete"
    /\ Emit(TransferProgress("Transfer complete", NoFile,
                             TotalFiles(manifest), TotalFiles(manifest),
                             TotalSize(manifest), TotalSize(manifest)))
    /\ IF options.verify_transfer /\ manifest # None
       THEN Goto("verifying") /\ UNCHANGED outcome
       ELSE Return(Ok(CompletedResult(manifest)))
    /\ UNCHANGED <<src, tgt, target0, first, sideVars, cmdVars, options, manifest,
                   todo, walk_ok, copied_files, total_copied_size, tmp_archive,
                   tgt_archive, writes>>

\* Step 3: verify_transfer(options.target_path, manifest).await.map(...)
Verify ==
    /\ pc = "verifying"
    /\ LET r == verify_transfer(tgt, manifest)
       IN Return(IF IsOk(r) THEN Ok(MapVerified(r.value, manifest)) ELSE r)
    /\ UNCHANGED <<src, tgt, target0, first, sideVars, cmdVars, options, manifest, events,
                   emit_result, todo, walk_ok, copied_files, total_copied_size,
                   tmp_archive, tgt_archive, writes>>

Next ==
    \/ Begin
    \/ Capture
    \/ CreateArchive
    \/ TransferArchive
    \/ ExtractArchive
    \/ Cleanup
    \/ StartCopy
    \/ CopyFile
    \/ FinishCopy
    \/ Complete
    \/ Verify

Spec == Init /\ [][Next]_vars

\* ------------------------------------------------ claims on transfer_files

Statuses == {events[i].status : i \in DOMAIN events}

Done == pc = "done"

Returned == Done /\ IsOk(outcome)

Failed == Done /\ ~IsOk(outcome)

\* The manifest entries that are present at the target with the recorded digest.
VerifiedEntries ==
    {i \in DOMAIN manifest.checksums :
        LET e == manifest.checksums[i]
        IN ~EntryMissing(e) /\ ~EntryDiffers(e)}

\* C7: direct copy with verification of a source of n >= 1 regular files of
\* total size s into an empty existing target, without I/O failure, returns
\* TransferResult{success: true, transferred_files: n, total_size: s}.
C7_DirectCopyVerified ==
    (/\ Done
     /\ ~options.create_archive
     /\ options.verify_transfer
     /\ target0 = EmptyDir
     /\ src.root = "dir"
     /\ RegularFilesOf(src) = ReadableFilesOf(src)
     /\ RegularFilesOf(src) # {})
        => /\ IsOk(outcome)
           /\ outcome.value.success
           /\ outcome.value.transferred_files = Cardinality(RegularFilesOf(src))
           /\ outcome.value.total_size =
                  SumOver(RegularFilesOf(src), LAMBDA p : SizeIn(src, p))

C7_Witness ==
    /\ Done
    /\ ~options.create_archive
    /\ options.verify_transfer
    /\ target0 = EmptyDir
    /\ src.node["a.txt"] = RegularFile(<<1>>, TRUE)
    /\ src.node["sub/b.txt"] = RegularFile(<<0, 1>>, TRUE)
    /\ src.node[ArchiveName] = Special
    /\ IsOk(outcome)
    /\ outcome.value.transferred_files = 2
    /\ outcome.value.total_size = 3

\* C8: the result returned reports the verified file count and size when
\* verification ran, and the number and total bytes of the files copied when
\* it did not.
C8_ReportsAvailableCounts ==
    Returned =>
        IF "Verifying" \in Range(phases)
        THEN /\ outcome.value.transferred_files = Cardinality(VerifiedEntries)
             /\ outcome.value.total_size =
                    SumOver(VerifiedEntries,
                            LAMBDA i : SizeIn(tgt, manifest.checksums[i].path))
        ELSE ~options.create_archive =>
                 /\ outcome.value.transferred_files = copied_files
                 /\ outcome.value.total_size = total_copied_size

PhaseOrder == <<"Idle", "CapturingManifest", "Transferring", "Verifying", "Done">>

Rank(ph) == CHOOSE i \in DOMAIN PhaseOrder : PhaseOrder[i] = ph

\* C9: the phases are entered in the order Idle, CapturingManifest,
\* Transferring, Verifying, Done, none twice; CapturingManifest is entered if
\* and only if verification is requested, and nothing is written to the
\* archive or the target before the manifest of the source is held;
\* Verifying is entered only if verification is requested and the transport
\* has finished successfully.
C9_PhaseOrder ==
    /\ phases[1] = "Idle"
    /\ phases[Len(phases)] = Phase(pc)
    /\ \A i \in 1..(Len(phases) - 1) : Rank(phases[i]) < Rank(phases[i + 1])
    /\ pc # "idle" => ("CapturingManifest" \in Range(phases) <=> options.verify_transfer)
    /\ Phase(pc) \in {"Idle", "CapturingManifest"} =>
           /\ writes = 0
           /\ tgt = target0
           /\ tmp_archive = None
           /\ tgt_archive = None
    /\ (options.verify_transfer /\ (writes > 0 \/ "Transferring" \in Range(phases))) =>
           /\ manifest # None
           /\ \A i \in DOMAIN manifest.checksums :
                  LET e == manifest.checksums[i]
                  IN e.path \in ReadableFilesOf(src) /\ e.checksum = DigestOf(src.node[e.path])
    /\ "Verifying" \in Range(phases) =>
           /\ options.verify_transfer
           /\ "Transferring" \in Range(phases)
           /\ events[Len(events)].status = "Transfer complete"
           /\ IF options.create_archive
              THEN tmp_archive = None /\ tgt_archive = None /\ "Extracting archive..." \in Statuses
              ELSE walk_ok /\ todo = <<>> /\ copied_files >= 1

C9_Witness ==
    /\ Done
    /\ phases = PhaseOrder
    /\ options.create_archive
    /\ writes > 0

\* Errors of a whole phase: a path that does not exist, a walk or an archive
\* step that failed.
PhaseErrors ==
    {"Source path does not exist", "Target path does not exist",
     "Failed to walk directory", "Failed to copy files", "Failed to create archive",
     "Failed to transfer archive", "Failed to extract archive"}

\* The walk of the direct copy has returned without error and copied nothing.
NothingCopied ==
    /\ Done
    /\ ~options.create_archive
    /\ "Transferring" \in Range(phases)
    /\ walk_ok
    /\ copied_files = 0

NoFilesCopiedFails ==
    NothingCopied =>
        /\ outcome = Err("No files were copied")
        /\ "Transfer complete" \notin Statuses
        /\ "Verifying" \notin Range(phases)

\* C10 as stated: on the direct-copy path zero files copied returns the error
\* "No files were copied", without "Transfer complete" event and without
\* verification, and no other failure on a single file makes the operation fail.
C10_OnlyFileLevelFailure ==
    /\ NoFilesCopiedFails
    /\ (Failed /\ ~options.create_archive /\ outcome.error \notin PhaseErrors)
           => outcome.error = "No files were copied"

\* C10 as amended: the same, where no other failure to copy a single file
\* makes the operation fail: the invocation fails before verification only
\* with "No files were copied" or the error of a whole phase, and with at
\* least one file copied the transport completes.
C10_OnlyCopyFailure ==
    /\ NoFilesCopiedFails
    /\ (Failed /\ ~options.create_archive /\ outcome.error \notin PhaseErrors
               /\ "Verifying" \notin Range(phases))
           => outcome.error = "No files were copied"
    /\ (Done /\ ~options.create_archive /\ "Transferring" \in Range(phases)
             /\ walk_ok /\ copied_files >= 1)
           => "Transfer complete" \in Statuses

C10_Witness ==
    /\ NothingCopied
    /\ options.verify_transfer
    /\ manifest.file_count = 2
    /\ Len(events) = 3
    /\ outcome = Err("No files were copied")

\* The archive of the source has just been extracted into a target that was
\* an empty directory.
Extracted == pc = "cleanup" /\ target0 = EmptyDir

\* C14: create_archive on a tree T followed by extract_archive into an empty
\* directory U leaves in U exactly the relative paths of the regular files of
\* T, each with the content digest it has in T. The archive the invocation
\* extracts lies in U itself, under ArchiveName, and is not counted.
C14_RoundTrip ==
    Extracted =>
        /\ Entries(tgt) \ {ArchiveName} = RegularFilesOf(src) \ {ArchiveName}
        /\ \A p \in RegularFilesOf(src) :
               IsFile(tgt, p) /\ DigestOf(tgt.node[p]) = DigestOf(src.node[p])

ArchiveOrder ==
    <<"Calculating checksums...", "Creating archive...", "Transferring archive...",
      "Extracting archive...", "Transfer complete">>

\* The statuses an invocation on the archive path emits if nothing fails.
ArchiveStatuses == IF options.verify_transfer THEN ArchiveOrder ELSE Tail(ArchiveOrder)

StatusSeq == [i \in DOMAIN events |-> events[i].status]

\* The status emitted last before the step that returns the error.
StatusBefore(error) ==
    CASE error \in {"Source path does not exist", "Failed to walk directory"}
             -> "Calculating checksums..."
      [] error = "Failed to create archive" -> "Creating archive..."
      [] error = "Failed to transfer archive" -> "Transferring archive..."
      [] error = "Failed to extract archive" -> "Extracting archive..."
      [] OTHER -> "Transfer complete"

\* C17: on the archive path the statuses emitted so far are a prefix of
\* "Calculating checksums..." (only with verify_transfer), "Creating
\* archive...", "Transferring archive...", "Extracting archive...", "Transfer
\* complete": each at most once and none before its predecessor; an invocation
\* that returns a result has emitted them all, and one that returns an error
\* has emitted them up to the step that failed.
C17_ArchiveEventOrder ==
    options.create_archive =>
        /\ Len(events) <= Len(ArchiveStatuses)
        /\ StatusSeq = SubSeq(ArchiveStatuses, 1, Len(events))
        /\ Returned => StatusSeq = ArchiveStatuses
        /\ Failed => StatusSeq[Len(events)] = StatusBefore(outcome.error)

C17_Witness ==
    /\ options.create_archive
    /\ options.verify_transfer
    /\ outcome = Err("Failed to transfer archive")
    /\ Len(events) = 3
    /\ manifest.file_count >= 2

\* The errors of the archive steps, in the order of the steps.
StepErrors ==
    <<"Failed to create archive", "Failed to transfer archive",
      "Failed to extract archive">>

\* How far the archive steps have got: 0 none has run, 1 the archive is
\* created in the temp directory, 2 it is copied to the target, 3 it is
\* extracted there, 4 both copies are deleted.
ArchiveStep ==
    CASE pc \in {"idle", "capturing", "create_archive"} -> 0
      [] pc = "transfer_archive" -> 1
      [] pc = "extract_archive" -> 2
      [] pc = "cleanup" -> 3
      [] pc \in {"complete", "verifying"} -> 4
      [] pc = "done" ->
             IF IsOk(outcome) THEN 4
             ELSE CASE outcome.error = "Failed to create archive" -> 1
                    [] outcome.error = "Failed to transfer archive" -> 1
                    [] outcome.error = "Failed to extract archive" -> 2
                    [] outcome.error \in {"Target path does not exist",
                                          "Failed to calculate checksum"} -> 4
                    [] OTHER -> 0

Copyable ==
    {p \in ReadableFilesOf(src) :
        target0.root \in {"dir", "none"} /\ Writable(target0.node[p])}

\* The walk of the direct copy has returned without error.
WalkDone ==
    /\ ~options.create_archive
    /\ pc \in {"copying", "complete", "verifying", "done"}
    /\ "Transferring" \in Range(phases)
    /\ todo = <<>>
    /\ walk_ok

\* The files announced by the "Copying files..." events.
Announced ==
    {events[i].current_file :
         i \in {k \in DOMAIN events : events[k].status = "Copying files..."}}

\* C20: on the direct-copy path a copy that fails does not end the walk: every
\* regular file of the source is visited, each one that can be copied is at
\* the target with its content, a file whose copy failed leaves the target as
\* it was and is in neither the copied-file count nor the copied-size total,
\* and with at least one file copied the transport phase succeeds.
C20_CopyFailureAbsorbed ==
    WalkDone =>
        /\ Announced = {<<p>> : p \in RegularFilesOf(src)}
        /\ \A p \in Copyable : tgt.node[p] = RegularFile(src.node[p].bytes, TRUE)
        /\ \A p \in Paths \ Copyable : tgt.node[p] = target0.node[p]
        /\ copied_files = Cardinality(Copyable)
        /\ total_copied_size = SumOver(Copyable, LAMBDA p : SizeIn(src, p))
        /\ (copied_files >= 1 /\ pc \in {"verifying", "done"}) =>
               "Transfer complete" \in Statuses

C20_Witness ==
    /\ WalkDone
    /\ pc = "done"
    /\ Cardinality(RegularFilesOf(src)) = 3
    /\ copied_files = 1
    /\ events[1].current_file \notin {<<p>> : p \in Copyable}
    /\ events[2].current_file \in {<<p>> : p \in Copyable}
    /\ events[3].current_file \notin {<<p>> : p \in Copyable}
    /\ target0.root = "dir"
    /\ IsOk(outcome)

\* The positions of the "Copying files..." events among the events emitted.
CopyEvents == {i \in DOMAIN events : events[i].status = "Copying files..."}

\* The files announced before event i whose copy succeeded.
CopiedBefore(i) ==
    {p \in Copyable : \E j \in CopyEvents : j < i /\ events[j].current_file = <<p>>}

\* C21: on the direct-copy path every "Copying files..." event announces a
\* regular file of the source by its relative path, no file is announced
\* twice, and every file copied was announced; the event is built before the
\* copy: its processed_files and processed_size are the number and the total
\* size of the files copied before it, the announced file left out, and they
\* never decrease from one such event to the next.
C21_OneEventPerFile ==
    ~options.create_archive =>
        /\ \A i \in CopyEvents :
               /\ events[i].current_file \in {<<p>> : p \in RegularFilesOf(src)}
               /\ events[i].processed_files = Cardinality(CopiedBefore(i))
               /\ events[i].processed_size =
                      SumOver(CopiedBefore(i), LAMBDA p : SizeIn(src, p))
        /\ \A i, j \in CopyEvents :
               /\ events[i].current_file = events[j].current_file => i = j
               /\ i < j => /\ events[i].processed_files <= events[j].processed_files
                           /\ events[i].processed_size <= events[j].processed_size
        /\ \A p \in Paths :
               (tgt.root = "dir" /\ tgt.node[p] # target0.node[p]) =>
                   \E i \in CopyEvents : events[i].current_file = <<p>>
        /\ copied_files = Cardinality(CopiedBefore(Len(events) + 1))

C21_Witness ==
    /\ ~options.create_archive
    /\ ~options.verify_transfer
    /\ Cardinality(CopyEvents) = 3
    /\ events[1].processed_files = 0
    /\ events[2].processed_files = 0
    /\ events[3].processed_files = 1
    /\ events[3].processed_size = 2
    /\ copied_files = 2

\* create_archive has run on a source that holds a file it cannot add.
AppendFailed ==
    /\ options.create_archive
    /\ src.root = "dir"
    /\ FailingFiles # {}
    /\ pc \notin {"idle", "capturing", "create_archive"}

\* C22: a failure while adding a file aborts the archive build: transfer_files
\* fails with "Failed to create archive", and the archive that lacks the file
\* is neither copied to the target nor extracted.
C22_AppendFailureAborts ==
    AppendFailed =>
        /\ outcome = Err("Failed to create archive")
        /\ tgt_archive = None
        /\ tgt = target0

\* The errors of the manifest capture.
CaptureErrors == {"Source path does not exist", "Failed to walk directory"}

\* The errors of the transport phase as a whole.
TransportErrors == Range(StepErrors) \cup {"Failed to copy files"}

\* The positions past the manifest capture, and past the transport.
PastCapture == pc \notin {"idle", "capturing", "done"} \/ "Transferring" \in Range(phases)

PastTransport == pc \in {"complete", "verifying"} \/ "Transfer complete" \in Statuses

\* C23: an error of a whole phase is returned at once. The invocation gets
\* past the manifest capture only if the capture succeeded, and past the
\* transport only if the walk and every archive step succeeded; after an
\* error of the capture nothing was written and the transport never started;
\* after an error of the transport no later step has run; and after either
\* no "Transfer complete" event is emitted, the verifier is not run and no
\* TransferResult is returned.
C23_PhaseErrorReturns ==
    /\ (PastCapture /\ options.verify_transfer) => src.root \in {"dir", "file"}
    /\ PastTransport => src.root # "noread"
    /\ (PastTransport /\ options.create_archive) =>
           target0.root = "dir" /\ Writable(target0.node[ArchiveName])
    /\ (Failed /\ outcome.error \in CaptureErrors) =>
           /\ "Transferring" \notin Range(phases)
           /\ writes = 0
           /\ tgt = target0
           /\ tmp_archive = None
    /\ (Failed /\ outcome.error = "Failed to copy files") => copied_files = 0 /\ ~walk_ok
    /\ \A i \in DOMAIN StepErrors :
           (Failed /\ outcome.error = StepErrors[i]) => writes = i
    /\ (Failed /\ outcome.error \in CaptureErrors \cup TransportErrors) =>
           /\ "Transfer complete" \notin Statuses
           /\ "Verifying" \notin Range(phases)
           /\ ~PastTransport

C23_Witness ==
    /\ Failed
    /\ outcome.error = "Failed to transfer archive"
    /\ options.verify_transfer
    /\ manifest.file_count >= 2
    /\ tmp_archive # None
    /\ tgt = target0

\* C24: an invocation whose source_path does not exist returns an error, for
\* every combination of create_archive and verify_transfer.
C24_MissingSourceFails ==
    (pc = "done" /\ ~RootExists(src)) => ~IsOk(outcome)

\* The invocation took the archive method and returned success.
ArchiveSucceeded ==
    /\ pc = "done"
    /\ options.create_archive
    /\ IsOk(outcome)
    /\ outcome.value.success

\* C25: when the archive method returns success, every regular file of the
\* source is at the target under the same relative path with the same
\* content, a file named transfer.tar.gz at the top of the source included.
\* Stated for the sources all of whose regular files can be read.
C25_ArchiveDelivers ==
    (ArchiveSucceeded /\ FailingFiles = {}) =>
        \A p \in RegularFilesOf(src) :
            IsFile(tgt, p) /\ tgt.node[p].bytes = src.node[p].bytes

\* C28: when the verifier run by the invocation verified no file, the result
\* carries the file_count and total_size of the manifest, whether the
\* verification succeeded or not; when it verified at least one file, the
\* result carries the number and the size of the verified files only.
C28_ZeroVerifiedReplaced ==
    (Returned /\ "Verifying" \in Range(phases)) =>
        IF VerifiedEntries = {}
        THEN /\ outcome.value.transferred_files = manifest.file_count
             /\ outcome.value.total_size = manifest.total_size
        ELSE /\ outcome.value.transferred_files = Cardinality(VerifiedEntries)
             /\ outcome.value.total_size =
                    SumOver(VerifiedEntries,
                            LAMBDA i : SizeIn(tgt, manifest.checksums[i].path))

\* A failed verification in which every entry is missing or mismatched.
C28_Witness ==
    /\ Returned
    /\ "Verifying" \in Range(phases)
    /\ ~outcome.value.success
    /\ VerifiedEntries = {}
    /\ manifest.file_count = 1
    /\ manifest.total_size = 2
    /\ outcome.value.transferred_files = 1
    /\ outcome.value.total_size = 2

\* A failed verification with one entry verified and one not.
C28_PartlyVerified ==
    /\ Returned
    /\ ~outcome.value.success
    /\ manifest.file_count = 2
    /\ outcome.value.transferred_files = 1

\* C29: in every event emitted the processed counts do not exceed the totals.
C29_ProcessedWithinTotal ==
    \A i \in DOMAIN events :
        /\ events[i].processed_files <= events[i].total_files
        /\ events[i].processed_size <= events[i].total_size

\* The same for the invocations that verify, whose totals are the manifest's.
C29_WithinManifestTotals == options.verify_transfer => C29_ProcessedWithinTotal

\* ---------------------------------------- two runs of the same invocation

\* How a run ended: what it returned and the files it left, with the manifest
\* it captured, the events it emitted and the result of its last emission.
RunEnd ==
    [outcome |-> outcome, tgt |-> tgt, tmp_archive |-> tmp_archive,
     tgt_archive |-> tgt_archive, manifest |-> manifest, events |-> events,
     emit_result |-> emit_result]

\* The first run has returned: how it ended is kept, and the same invocation
\* is made once more on the same inputs, the source, the target as it was
\* and the options, with no archive file left over.
Replay ==
    /\ pc = "done"
    /\ first = None
    /\ first' = RunEnd
    /\ tgt' = target0
    /\ pc' = "idle"
    /\ manifest' = None
    /\ events' = <<>>
    /\ emit_result' = "none"
    /\ todo' = <<>>
    /\ walk_ok' = TRUE
    /\ copied_files' = 0
    /\ total_copied_size' = 0
    /\ tmp_archive' = None
    /\ tgt_archive' = None
    /\ outcome' = None
    /\ phases' = <<"Idle">>
    /\ writes' = 0
    /\ UNCHANGED <<src, target0, sideVars, cmdVars, options>>

EmitNext == Next \/ Replay

\* The sources of the compared runs: no directory, a directory that cannot be
\* read, and the directories whose files are readable, of one content, or locked.
EmitTrees ==
    {t \in Trees :
        /\ t.root # "file"
        /\ \A p \in Paths : t.node[p] \in {Absent, Locked, RegularFile(<<0>>, TRUE)}}

EmitInit == Init /\ src \in EmitTrees

SpecEmit == EmitInit /\ [][EmitNext]_vars

\* The entries of an archive file, whatever the order the walk added them in.
ArchiveEntries(file) == IF IsOk(file) THEN Range(file.value) ELSE {}

SameArchive(a, b) == a.tag = b.tag /\ ArchiveEntries(a) = ArchiveEntries(b)

\* Both runs have returned, and their walks handed out the files in the same
\* order: they captured the same manifest.
BothRuns == Done /\ first # None /\ manifest = first.manifest

\* C11: two runs of transfer_files on the same inputs, whichever of their
\* emissions fail, return the same value and leave the same files: the same
\* target tree and the same archive files with the same entries.
C11_EmitIndependent ==
    BothRuns =>
        /\ outcome = first.outcome
        /\ tgt = first.tgt
        /\ SameArchive(tmp_archive, first.tmp_archive)
        /\ SameArchive(tgt_archive, first.tgt_archive)

C11_Witness ==
    /\ BothRuns
    /\ events = first.events
    /\ Len(events) >= 4
    /\ first.emit_result = "err"
    /\ emit_result = "ok"
    /\ IsOk(outcome)
    /\ tgt # target0

\* ---------------------------------------------- two concurrent invocations

\* What an invocation of transfer_files holds of its own: its arguments, its
\* target, its position, its locals and what it has emitted and returned.
\* The archive in the temp directory is not among them.
Local ==
    [src |-> src, tgt |-> tgt, target0 |-> target0, options |-> options, pc |-> pc,
     manifest |-> manifest, events |-> events, emit_result |-> emit_result,
     todo |-> todo, walk_ok |-> walk_ok, copied_files |-> copied_files,
     total_copied_size |-> total_copied_size, tgt_archive |-> tgt_archive,
     outcome |-> outcome, phases |-> phases, writes |-> writes]

\* The async runtime runs the two invocations on its worker threads with no
\* lock between them: the one that was taking steps waits where it is and the
\* other one goes on from where it was.
Switch ==
    /\ parked # None
    /\ parked' = Local
    /\ running' = IF running = "A" THEN "B" ELSE "A"
    /\ src' = parked.src
    /\ tgt' = parked.tgt
    /\ target0' = parked.target0
    /\ options' = parked.options
    /\ pc' = parked.pc
    /\ manifest' = parked.manifest
    /\ events' = parked.events
    /\ emit_result' = parked.emit_result
    /\ todo' = parked.todo
    /\ walk_ok' = parked.walk_ok
    /\ copied_files' = parked.copied_files
    /\ total_copied_size' = parked.total_copied_size
    /\ tgt_archive' = parked.tgt_archive
    /\ outcome' = parked.outcome
    /\ phases' = parked.phases
    /\ writes' = parked.writes
    /\ UNCHANGED <<tmp_archive, first, recentVars, nestVars, cmdVars>>

\* The steps of the archive method, taken by whichever invocation is running.
TwoNext ==
    \/ Begin
    \/ Capture
    \/ CreateArchive
    \/ TransferArchive
    \/ ExtractArchive
    \/ Cleanup
    \/ Complete
    \/ Verify
    \/ Switch

\* The sources of invocation A: directories of readable files of one content,
\* a.txt among them.
TwoSources ==
    {t \in Trees :
        /\ t.root = "dir"
        /\ t.node["a.txt"] = RegularFile(<<0>>, TRUE)
        /\ \A p \in Paths : t.node[p] \in {Absent, RegularFile(<<0>>, TRUE)}}

\* The source of invocation B: two files, a.txt with another content.
PeerSource ==
    [root |-> "dir",
     node |-> [EmptyNodes EXCEPT !["a.txt"] = RegularFile(<<1>>, TRUE),
                                 !["sub/b.txt"] = RegularFile(<<0, 1>>, TRUE)]]

\* Invocation B before its first step.
PeerStart ==
    [src |-> PeerSource, tgt |-> EmptyDir, target0 |-> EmptyDir,
     options |-> [create_archive |-> TRUE, verify_transfer |-> FALSE], pc |-> "idle",
     manifest |-> None, events |-> <<>>, emit_result |-> "none", todo |-> <<>>,
     walk_ok |-> TRUE, copied_files |-> 0, total_copied_size |-> 0,
     tgt_archive |-> None, outcome |-> None, phases |-> <<"Idle">>, writes |-> 0]

\* Two invocations with create_archive = true, each with its own source and
\* its own empty target directory, neither has taken a step.
TwoInit ==
    /\ src \in TwoSources
    /\ tgt = EmptyDir
    /\ options \in {o \in AllOptions : o.create_archive}
    /\ parked = PeerStart
    /\ running = "A"
    /\ cmd_manifest = None
    /\ cmd_result = None
    /\ edits = 0
    /\ first = None
    /\ RecentIdle
    /\ NestIdle
    /\ RunIdle

SpecTwo == TwoInit /\ [][TwoNext]_vars

\* Invocation A and invocation B, whichever is running.
InvocationA == IF running = "A" THEN Local ELSE parked

InvocationB == IF running = "B" THEN Local ELSE parked

\* The archive files create_archive can write for a source.
ArchivesOf(tree) == {create_archive(tree, walk).file : walk \in visit_dirs(tree)}

\* The archives either invocation can write to <tmp>/transfer.tar.gz.
SharedArchives == ArchivesOf(InvocationA.src) \cup ArchivesOf(InvocationB.src)

\* The invocation has got past its cleanup.
PastCleanup(inv) ==
    \/ inv.pc \in {"complete", "verifying"}
    \/ inv.pc = "done" /\ (IsOk(inv.outcome) \/ inv.outcome.error \notin Range(StepErrors))

\* The target of the invocation holds what the archive `file` unpacks to.
Holds(inv, file) ==
    LET extracted == Unpack(file.value, CopyArchive(file, inv.target0).tree)
    IN inv.tgt = IF PastCleanup(inv) THEN RemoveArchiveCopy(extracted) ELSE extracted

\* C27: two invocations with create_archive = true write, read and delete the
\* one file <tmp>/transfer.tar.gz with nothing to keep them apart. The file
\* holds the archive of the source of whichever wrote it last, or is gone;
\* the copy an invocation makes to its target, and what it extracts there, is
\* the archive of either source; and an invocation, its target being an
\* empty directory, fails to transfer the archive only when the other one has
\* deleted the file.
C27_SharedTempArchive ==
    /\ tmp_archive \in {None} \cup SharedArchives
    /\ \A inv \in {InvocationA, InvocationB} :
           /\ inv.tgt_archive \in {None} \cup SharedArchives
           /\ (inv.pc = "cleanup" \/ PastCleanup(inv)) =>
                  \E file \in SharedArchives : Holds(inv, file)
    /\ (InvocationA.pc = "done" /\ InvocationA.outcome = Err("Failed to transfer archive")) =>
           PastCleanup(InvocationB)
    /\ (InvocationB.pc = "done" /\ InvocationB.outcome = Err("Failed to transfer archive")) =>
           PastCleanup(InvocationA)

\* A has returned success and its target holds the files of B's source, not
\* those of its own.
C27_Witness ==
    /\ InvocationA.pc = "done"
    /\ IsOk(InvocationA.outcome)
    /\ InvocationA.outcome.value.success
    /\ InvocationA.src.node["a.txt"] = RegularFile(<<0>>, TRUE)
    /\ InvocationA.src.node["sub/b.txt"] = Absent
    /\ InvocationA.tgt.node["a.txt"] = RegularFile(<<1>>, TRUE)
    /\ InvocationA.tgt.node["sub/b.txt"] = RegularFile(<<0, 1>>, TRUE)
    /\ \E file \in ArchivesOf(PeerSource) : Holds(InvocationA, file)

\* A found the archive deleted by B: its copy failed and its target is empty.
C27_FoundDeleted ==
    /\ InvocationA.pc = "done"
    /\ InvocationA.outcome = Err("Failed to transfer archive")
    /\ InvocationA.tgt = EmptyDir
    /\ InvocationB.pc = "done"
    /\ IsOk(InvocationB.outcome)

\* ---------------------------------------------------------- termination

LiveNext == Next \/ Descend \/ Ascend

\* The sources of the invocations followed to their end: no directory, a
\* directory that cannot be read, and the directories of readable files of
\* one content.
LiveTrees ==
    {t \in Trees :
        /\ t.root # "file"
        /\ \A p \in Paths : t.node[p] \in {Absent, RegularFile(<<0>>, TRUE)}}

\* The target is outside the source, or it is the directory TargetName right
\* under the root of a source of at most two files; it is empty or not yet
\* there.
LiveInit ==
    /\ src \in LiveTrees
    /\ nested \in BOOLEAN
    /\ tgt \in {EmptyDir, NoTree}
    /\ nested => src.root = "dir" /\ src.node[ArchiveName] = Absent
    /\ options \in AllOptions
    /\ above = <<>>
    /\ below = <<>>
    /\ descended = FALSE
    /\ cmd_manifest = None
    /\ cmd_result = None
    /\ edits = 0
    /\ first = None
    /\ RecentIdle
    /\ TwoIdle
    /\ RunIdle

\* The runtime keeps polling the invocation, which never waits for anything
\* but its own file-system calls: a step that can be taken is taken.
SpecLive == LiveInit /\ [][LiveNext]_vars /\ WF_vars(LiveNext)

\* C26: every invocation returns, the ones whose target directory lies in
\* the source, where the walk finds its own copies, included.
C26_Terminates == <>(pc = "done")

\* The only file of the source was copied into the target and, found there
\* by the walk, once more one level down.
C26_Witness ==
    /\ pc = "done"
    /\ nested
    /\ IsOk(outcome)
    /\ Cardinality(RegularFilesOf(src)) = 1
    /\ copied_files >= 2
    /\ below # <<>>
    /\ below[1].root = "dir"

\* ------------------------------------------------------- recent locations

\* The paths the front end adds.
Locations == {"/music", "/usb", "/backup"}

\* impl Default for AppConfig: max_recent_locations: 10
DefaultMaxRecent == 10

\* The largest max_recent_locations a stored configuration holds, the default
\* apart.
MaxRecent == 2

\* The calls of add_recent_location recorded in `added`.
MaxAdds == 3

\* AppConfig, its recent_locations and max_recent_locations.
AppConfig(list, limit) == [recent_locations |-> list, max_recent_locations |-> limit]

\* AppConfig::default()
DefaultConfig == AppConfig(<<>>, DefaultMaxRecent)

\* load_config(): the stored configuration, or the default when there is none.
load_config == IF config_file = None THEN DefaultConfig ELSE config_file.value

NoDuplicates(list) == \A i, j \in DOMAIN list : list[i] = list[j] => i = j

\* The lists of locations without duplicates, of at most `limit` paths.
RecentLists(limit) ==
    {list \in UNION {[1..n -> Locations] : n \in 0..Min(limit, Cardinality(Locations))} :
        NoDuplicates(list)}

\* recent_locations.iter().position(|x| x == &path)
Position(list, path) ==
    IF \E i \in DOMAIN list : list[i] = path
    THEN Ok(CHOOSE i \in DOMAIN list :
                list[i] = path /\ \A j \in 1..(i - 1) : list[j] # path)
    ELSE None

\* Vec::remove(pos), with pos counted from 1.
RemoveAt(list, pos) == SubSeq(list, 1, pos - 1) \o SubSeq(list, pos + 1, Len(list))

\* Vec::truncate(len)
Truncate(list, len) == IF Len(list) > len THEN SubSeq(list, 1, len) ELSE list

\* Mutant of add_recent_location: the path is inserted without removing the
\* place it had.
add_recent_location_keeps_old(config, path) ==
    LET inserted == <<path>> \o config.recent_locations
    IN [config EXCEPT !.recent_locations =
            IF Len(inserted) > config.max_recent_locations
            THEN Truncate(inserted, config.max_recent_locations)
            ELSE inserted]

\* add_recent_location(path), up to save_config: the configuration to store.
add_recent_location(config, path) ==
    LET pos == Position(config.recent_locations, path)
        removed == IF pos # None THEN RemoveAt(config.recent_locations, pos.value)
                   ELSE config.recent_locations
        inserted == <<path>> \o removed
    IN [config EXCEPT !.recent_locations =
            IF Len(inserted) > config.max_recent_locations
            THEN Truncate(inserted, config.max_recent_locations)
            ELSE inserted]

\* The stored configurations the calls start from: none, or one whose list
\* has no duplicates and is within its max_recent_locations of at least 1.
StoredConfigs ==
    {None} \cup
    UNION {{Ok(AppConfig(list, limit)) : list \in RecentLists(limit)} :
              limit \in (1..MaxRecent) \cup {DefaultMaxRecent}}

RecentInit ==
    /\ config_file \in StoredConfigs
    /\ recent0 = load_config.recent_locations
    /\ recent_result = None
    /\ added = <<>>
    /\ src = NoTree
    /\ tgt = NoTree
    /\ cmd_manifest = None
    /\ cmd_result = None
    /\ edits = 0
    /\ options = [create_archive |-> FALSE, verify_transfer |-> FALSE]
    /\ first = None
    /\ TwoIdle
    /\ NestIdle
    /\ RunIdle

\* The add_recent_location command: save_config writes the new configuration
\* or fails, and then the stored one is as it was.
AddRecentLocation ==
    /\ Len(added) < MaxAdds
    /\ \E path \in Locations, saved \in BOOLEAN :
           LET config == add_recent_location(load_config, path)
           IN IF saved
              THEN /\ config_file' = Ok(config)
                   /\ recent_result' = Ok(config.recent_locations)
                   /\ added' = Append(added, path)
              ELSE /\ recent_result' = Err("io")
                   /\ UNCHANGED <<config_file, added>>
    /\ UNCHANGED <<src, tgt, target0, first, recent0, twoVars, nestVars, cmdVars,
                   runVars>>

\* The get_recent_locations command.
GetRecentLocations ==
    /\ recent_result' = Ok(load_config.recent_locations)
    /\ UNCHANGED <<src, tgt, target0, first, config_file, recent0, added, twoVars,
                   nestVars, cmdVars, runVars>>

RecentNext == AddRecentLocation \/ GetRecentLocations

SpecRecent == RecentInit /\ [][RecentNext]_vars

\* The distinct paths of a history of additions, the latest first.
RECURSIVE MostRecentFirst(_)
MostRecentFirst(history) ==
    IF history = <<>> THEN <<>>
    ELSE LET last == history[Len(history)]
             earlier == MostRecentFirst(SubSeq(history, 1, Len(history) - 1))
         IN <<last>> \o SelectSeq(earlier, LAMBDA x : x # last)

\* The sequence in reverse order.
Reverse(list) == [i \in 1..Len(list) |-> list[Len(list) + 1 - i]]

\* The stored list, as the next command reads it.
StoredRecent == load_config.recent_locations

====
